---- MODULE Spec2Model ----
(***************************************************************************)
(* Model of py/selenium/webdriver/common/proxy.py: ProxyType.load, the two *)
(* descriptor classes, Proxy.__init__, _verify_proxy_type_compatibility    *)
(* and to_capabilities.                                                    *)
(*                                                                         *)
(* Python values are records [ty, s, n, b]; a str is a sequence of         *)
(* one-character strings, so that upper(), lower() and truthiness are      *)
(* computed, not assumed.  A dict {"ff_value": n, "string": s} is the      *)
(* value of ty "ptype".                                                    *)
(***************************************************************************)
EXTENDS Integers, Sequences, FiniteSets, TLC

VARIABLES cls, idict, objs, last, res, ncalls

vars == <<cls, idict, objs, last, res, ncalls>>

\* ---------------------------------------------------------------- bounds
MaxInst == 2

MaxCalls == 4

MaxCtorCalls == 2

\* ---------------------------------------------------------------- values
PyStr(s) == [ty |-> "str", s |-> s, n |-> 0, b |-> FALSE]

PyInt(n) == [ty |-> "int", s |-> <<>>, n |-> n, b |-> FALSE]

PyBool(b) == [ty |-> "bool", s |-> <<>>, n |-> 0, b |-> b]

PyNone == [ty |-> "none", s |-> <<>>, n |-> 0, b |-> FALSE]

\* Python truthiness: bool(value)
Truthy(v) ==
  CASE v.ty = "str" -> Len(v.s) > 0
    [] v.ty = "int" -> v.n # 0
    [] v.ty = "bool" -> v.b
    [] v.ty = "none" -> FALSE
    [] OTHER -> TRUE

\* isinstance(value, bool)
IsBool(v) == v.ty = "bool"

LowerLetters ==
  <<"a","b","c","d","e","f","g","h","i","j","k","l","m",
    "n","o","p","q","r","s","t","u","v","w","x","y","z">>

UpperLetters ==
  <<"A","B","C","D","E","F","G","H","I","J","K","L","M",
    "N","O","P","Q","R","S","T","U","V","W","X","Y","Z">>

IndexIn(c, letters) ==
  IF \E k \in 1..Len(letters) : letters[k] = c
    THEN CHOOSE k \in 1..Len(letters) : letters[k] = c
    ELSE 0

UpperChar(c) ==
  IF IndexIn(c, LowerLetters) # 0 THEN UpperLetters[IndexIn(c, LowerLetters)] ELSE c

LowerChar(c) ==
  IF IndexIn(c, UpperLetters) # 0 THEN LowerLetters[IndexIn(c, UpperLetters)] ELSE c

\* str.upper()
Upper(s) == [k \in 1..Len(s) |-> UpperChar(s[k])]

\* str.lower()
Lower(s) == [k \in 1..Len(s) |-> LowerChar(s[k])]

Digits == <<"0","1","2","3","4","5","6","7","8","9">>

RECURSIVE Decimal(_)
Decimal(n) ==
  IF n < 10 THEN <<Digits[n + 1]>> ELSE Decimal(n \div 10) \o <<Digits[(n % 10) + 1]>>

\* str(value) for the values that are not a dict carrying "string"
StrOf(v) ==
  CASE v.ty = "str" -> v.s
    [] v.ty = "int" -> Decimal(v.n)
    [] v.ty = "bool" -> IF v.b THEN <<"T","r","u","e">> ELSE <<"F","a","l","s","e">>
    [] v.ty = "none" -> <<"N","o","n","e">>
    [] OTHER -> <<"{","}">>

\* ------------------------------------------------------------- ProxyType
\* ProxyTypeFactory.make(ff_value, string)
make(ff_value, string) == [ty |-> "ptype", s |-> string, n |-> ff_value, b |-> FALSE]

DIRECT == make(0, <<"D","I","R","E","C","T">>)

MANUAL == make(1, <<"M","A","N","U","A","L">>)

PAC == make(2, <<"P","A","C">>)

RESERVED_1 == make(3, <<"R","E","S","E","R","V","E","D","1">>)

AUTODETECT == make(4, <<"A","U","T","O","D","E","T","E","C","T">>)

SYSTEM == make(5, <<"S","Y","S","T","E","M">>)

UNSPECIFIED == make(6, <<"U","N","S","P","E","C","I","F","I","E","D">>)

\* the dict-valued attributes of ProxyType in the order dir(cls) yields them
ProxyTypeAttrs == <<AUTODETECT, DIRECT, MANUAL, PAC, RESERVED_1, SYSTEM, UNSPECIFIED>>

ProxyTypes == {ProxyTypeAttrs[k] : k \in 1..Len(ProxyTypeAttrs)}

Ok(v) == [err |-> "none", msg |-> <<>>, out |-> v]

Raise(kind, msg) == [err |-> kind, msg |-> msg, out |-> PyNone]

\* the loop falling back to UNSPECIFIED instead of raising
RECURSIVE loadScan_Default(_, _)
loadScan_Default(value, k) ==
  IF k > Len(ProxyTypeAttrs) THEN Ok(UNSPECIFIED)
  ELSE IF ProxyTypeAttrs[k].s = value THEN Ok(ProxyTypeAttrs[k])
  ELSE loadScan_Default(value, k + 1)

\* the for loop of ProxyType.load from attribute k on
RECURSIVE loadScan(_, _)
loadScan(value, k) ==
  IF k > Len(ProxyTypeAttrs) THEN Raise("LookupError", value)
  ELSE IF ProxyTypeAttrs[k].s = value THEN Ok(ProxyTypeAttrs[k])
  ELSE loadScan(value, k + 1)

\* load without the upper-casing
load_NoUpper(value) ==
  LET v1 == IF value.ty = "ptype" THEN PyStr(value.s) ELSE value
  IN  loadScan(StrOf(v1), 1)

\* ProxyType.load(value)
load(value) ==
  LET v1 == IF value.ty = "ptype" THEN PyStr(value.s) ELSE value
      v2 == Upper(StrOf(v1))
  IN  loadScan(v2, 1)

\* ------------------------------------------------------------ descriptors
\* the class attributes of Proxy that hold data, with their defaults
ClassDefaults ==
  [proxyType |-> UNSPECIFIED,
   autodetect |-> PyBool(FALSE),
   ftpProxy |-> PyStr(<<>>),
   httpProxy |-> PyStr(<<>>),
   noProxy |-> PyStr(<<>>),
   proxyAutoconfigUrl |-> PyStr(<<>>),
   sslProxy |-> PyStr(<<>>),
   socksProxy |-> PyStr(<<>>),
   socksUsername |-> PyStr(<<>>),
   socksPassword |-> PyStr(<<>>),
   socksVersion |-> PyNone]

\* the ProxyTypeDescriptor objects of class Proxy: accessor |-> (name, p_type)
Descriptors ==
  [auto_detect |-> [name |-> "autodetect", p_type |-> AUTODETECT],
   ftp_proxy |-> [name |-> "ftpProxy", p_type |-> MANUAL],
   http_proxy |-> [name |-> "httpProxy", p_type |-> MANUAL],
   no_proxy |-> [name |-> "noProxy", p_type |-> MANUAL],
   proxy_autoconfig_url |-> [name |-> "proxyAutoconfigUrl", p_type |-> PAC],
   ssl_proxy |-> [name |-> "sslProxy", p_type |-> MANUAL],
   socks_proxy |-> [name |-> "socksProxy", p_type |-> MANUAL],
   socks_username |-> [name |-> "socksUsername", p_type |-> MANUAL],
   socks_password |-> [name |-> "socksPassword", p_type |-> MANUAL],
   socks_version |-> [name |-> "socksVersion", p_type |-> MANUAL]]

Accessors == DOMAIN Descriptors

EmptyDict == [k \in {} |-> PyNone]

\* a heap: the class attributes, the instances' own __dict__, the pending error
Heap(c, d) == [cls |-> c, idict |-> d, err |-> "none", msg |-> <<>>]

\* getattr(self, name) for a data attribute: the instance __dict__ first
GetAttr(c, d, obj, name) ==
  IF name \in DOMAIN d[obj] THEN d[obj][name] ELSE c[name]

\* the check also letting UNSPECIFIED be requested over a concrete type
verify_proxy_type_compatibility_Resettable(h, obj, compatible_proxy) ==
  \/ GetAttr(h.cls, h.idict, obj, "proxyType") \in {UNSPECIFIED, compatible_proxy}
  \/ compatible_proxy = UNSPECIFIED

\* Proxy._verify_proxy_type_compatibility: TRUE when it does not raise
verify_proxy_type_compatibility(h, obj, compatible_proxy) ==
  GetAttr(h.cls, h.idict, obj, "proxyType") \in {UNSPECIFIED, compatible_proxy}

\* ProxyDescriptor.__set__
ProxyDescriptor_set(h, obj, value) ==
  IF ~verify_proxy_type_compatibility(h, obj, value)
    THEN [h EXCEPT !.err = "IncompatibleState", !.msg = value.s]
    ELSE [h EXCEPT !.cls.proxyType = value]

\* ProxyDescriptor.__get__
ProxyDescriptor_get(c, obj) == c.proxyType

\* the setter writing proxyType before it runs the check
ProxyTypeDescriptor_set_WriteFirst(h, desc, obj, value) ==
  IF desc.name = "autodetect" /\ ~IsBool(value)
    THEN [h EXCEPT !.err = "TypeMismatch"]
  ELSE IF ~verify_proxy_type_compatibility(h, obj, desc.p_type)
    THEN [h EXCEPT !.err = "IncompatibleState", !.msg = desc.p_type.s,
                   !.cls.proxyType = desc.p_type]
  ELSE [h EXCEPT !.cls = [@ EXCEPT !.proxyType = desc.p_type, ![desc.name] = value]]

\* the setter running the compatibility check before the boolean test
ProxyTypeDescriptor_set_CheckFirst(h, desc, obj, value) ==
  IF ~verify_proxy_type_compatibility(h, obj, desc.p_type)
    THEN [h EXCEPT !.err = "IncompatibleState", !.msg = desc.p_type.s]
  ELSE IF desc.name = "autodetect" /\ ~IsBool(value)
    THEN [h EXCEPT !.err = "TypeMismatch"]
  ELSE [h EXCEPT !.cls = [@ EXCEPT !.proxyType = desc.p_type, ![desc.name] = value]]

\* the setter storing the value without setting proxyType
ProxyTypeDescriptor_set_NoType(h, desc, obj, value) ==
  IF desc.name = "autodetect" /\ ~IsBool(value)
    THEN [h EXCEPT !.err = "TypeMismatch"]
  ELSE IF ~verify_proxy_type_compatibility(h, obj, desc.p_type)
    THEN [h EXCEPT !.err = "IncompatibleState", !.msg = desc.p_type.s]
  ELSE [h EXCEPT !.cls = [@ EXCEPT ![desc.name] = value]]

\* ProxyTypeDescriptor.__set__ of the descriptor desc = (name, p_type)
ProxyTypeDescriptor_set(h, desc, obj, value) ==
  IF desc.name = "autodetect" /\ ~IsBool(value)
    THEN [h EXCEPT !.err = "TypeMismatch"]
  ELSE IF ~verify_proxy_type_compatibility(h, obj, desc.p_type)
    THEN [h EXCEPT !.err = "IncompatibleState", !.msg = desc.p_type.s]
  ELSE [h EXCEPT !.cls = [@ EXCEPT !.proxyType = desc.p_type, ![desc.name] = value]]

\* ProxyTypeDescriptor.__get__
ProxyTypeDescriptor_get(c, desc, obj) == c[desc.name]

\* ------------------------------------------------------------------ Proxy
\* the keys Proxy.__init__ tests, in the order of its if statements
InitOrder ==
  <<"proxyType", "ftpProxy", "httpProxy", "noProxy", "proxyAutoconfigUrl",
    "sslProxy", "autodetect", "socksProxy", "socksUsername", "socksPassword",
    "socksVersion">>

\* the accessor Proxy.__init__ assigns a key through
InitAccessor ==
  [ftpProxy |-> "ftp_proxy", httpProxy |-> "http_proxy", noProxy |-> "no_proxy",
   proxyAutoconfigUrl |-> "proxy_autoconfig_url", autodetect |-> "auto_detect",
   socksProxy |-> "socks_proxy", socksUsername |-> "socks_username",
   socksPassword |-> "socks_password", socksVersion |-> "socks_version"]

\* one if statement of Proxy.__init__: the assignment for a key that is truthy
initAssign(h, obj, key, value) ==
  IF key = "proxyType"
    THEN LET r == load(value)
         IN  IF r.err # "none" THEN [h EXCEPT !.err = r.err, !.msg = r.msg]
             ELSE ProxyDescriptor_set(h, obj, r.out)
  ELSE IF key = "sslProxy"
    THEN [h EXCEPT !.idict[obj] = [k \in DOMAIN @ \cup {"sslProxy"} |->
                                     IF k = "sslProxy" THEN value ELSE @[k]]]
  ELSE ProxyTypeDescriptor_set(h, Descriptors[InitAccessor[key]], obj, value)

\* the if statements of Proxy.__init__ from the k-th on, stopping at a raise
RECURSIVE initFrom(_, _, _, _)
initFrom(h, obj, raw, k) ==
  IF k > Len(InitOrder) \/ h.err # "none" THEN h
  ELSE LET key == InitOrder[k]
       IN  IF key \in DOMAIN raw /\ Truthy(raw[key])
             THEN initFrom(initAssign(h, obj, key, raw[key]), obj, raw, k + 1)
             ELSE initFrom(h, obj, raw, k + 1)

\* Proxy.__init__(self, raw): raw is [given |-> FALSE] for None
Proxy_init(h, obj, raw) ==
  IF raw.given /\ DOMAIN raw.map # {} THEN initFrom(h, obj, raw.map, 1) ELSE h

\* the list proxies of to_capabilities
proxies ==
  <<"autodetect", "ftpProxy", "httpProxy", "proxyAutoconfigUrl", "sslProxy",
    "noProxy", "socksProxy", "socksUsername", "socksPassword", "socksVersion">>

\* the loop without its truthiness test
RECURSIVE capsFrom_NoTest(_, _, _, _, _)
capsFrom_NoTest(c, d, obj, proxy_caps, k) ==
  IF k > Len(proxies) THEN proxy_caps
  ELSE capsFrom_NoTest(c, d, obj,
                       [x \in DOMAIN proxy_caps \cup {proxies[k]} |->
                          IF x = proxies[k] THEN GetAttr(c, d, obj, proxies[k])
                          ELSE proxy_caps[x]],
                       k + 1)

\* the for loop of to_capabilities from the k-th entry on
RECURSIVE capsFrom(_, _, _, _, _)
capsFrom(c, d, obj, proxy_caps, k) ==
  IF k > Len(proxies) THEN proxy_caps
  ELSE LET proxy == proxies[k]
           attr_value == GetAttr(c, d, obj, proxy)
       IN  IF Truthy(attr_value)
             THEN capsFrom(c, d, obj,
                           [x \in DOMAIN proxy_caps \cup {proxy} |->
                              IF x = proxy THEN attr_value ELSE proxy_caps[x]],
                           k + 1)
             ELSE capsFrom(c, d, obj, proxy_caps, k + 1)

\* to_capabilities reporting the type by its ff_value
to_capabilities_FfValue(c, d, obj) ==
  capsFrom(c, d, obj,
           [x \in {"proxyType"} |-> PyInt(GetAttr(c, d, obj, "proxyType").n)],
           1)

\* Proxy.to_capabilities
to_capabilities(c, d, obj) ==
  capsFrom(c, d, obj,
           [x \in {"proxyType"} |-> PyStr(Lower(GetAttr(c, d, obj, "proxyType").s))],
           1)

\* ----------------------------------------------------------------- inputs
Instances == 1..MaxInst

StrA == PyStr(<<"a">>)

StrB == PyStr(<<"b">>)

\* the values a caller assigns through an accessor
SetVals(acc) ==
  CASE acc = "auto_detect" -> {PyBool(TRUE), PyBool(FALSE), PyStr(<<"y","e","s">>)}
    [] acc = "socks_version" -> {PyNone, PyInt(0), PyInt(5)}
    [] acc = "ssl_proxy" -> {PyStr(<<>>), StrA, StrB}
    [] OTHER -> {PyStr(<<>>), StrA}

\* the values a raw mapping gives a key
RawVals(key) ==
  CASE key = "proxyType" ->
         {PyStr(<<"p","a","c">>), PyStr(<<"M","a","n","u","a","l">>), AUTODETECT,
          PyStr(<<"D","I","R","E","C","T">>), PyStr(<<"b","o","g","u","s">>),
          PyStr(<<>>)}
    [] key = "autodetect" -> SetVals("auto_detect")
    [] key = "socksVersion" -> SetVals("socks_version")
    [] key = "sslProxy" -> SetVals("ssl_proxy")
    [] OTHER -> {PyStr(<<>>), StrA}

RawKeys == {InitOrder[k] : k \in 1..Len(InitOrder)} \cup {"foo"}

NoRaw == [given |-> FALSE, map |-> EmptyDict]

Raw(m) == [given |-> TRUE, map |-> m]

\* raw mappings with one key
RawOne == {[x \in {k} |-> v] : k \in RawKeys, v \in UNION {RawVals(k) : k \in RawKeys}}

\* the keys __init__ handles each in its own way: the type, the PAC field,
\* the direct write and the boolean field
PivotKeys == {"proxyType", "proxyAutoconfigUrl", "sslProxy", "autodetect"}

\* raw mappings with at most two keys, one of them a pivot key
RawTwo ==
  RawOne \cup
  {[x \in DOMAIN m1 \cup DOMAIN m2 |-> IF x \in DOMAIN m1 THEN m1[x] ELSE m2[x]] :
     m1 \in {f \in RawOne : DOMAIN f \subseteq PivotKeys}, m2 \in RawOne}

WellFormed(m) == \A k \in DOMAIN m : m[k] \in RawVals(k)

\* Proxy(), Proxy({}) and Proxy(raw) with one key
RawInputs == {NoRaw, Raw(EmptyDict)} \cup {Raw(m) : m \in {f \in RawOne : WellFormed(f)}}

\* Proxy(), Proxy({}) and Proxy(raw) with one or two keys
RawInputs2 == {NoRaw, Raw(EmptyDict)} \cup {Raw(m) : m \in {f \in RawTwo : WellFormed(f)}}

\* ----------------------------------------------------------- state machine
NoCall == [op |-> "none", inst |-> 0, name |-> "", value |-> PyNone, raw |-> NoRaw]

NoRes == [err |-> "none", msg |-> <<>>, out |-> PyNone, ret |-> EmptyDict]

Init ==
  /\ cls = ClassDefaults
  /\ idict = [i \in Instances |-> EmptyDict]
  /\ objs = {}
  /\ last = NoCall
  /\ res = NoRes
  /\ ncalls = 0

\* p = Proxy(raw): a new object with an empty __dict__ runs __init__; it is
\* bound (enters objs) only when __init__ returns, and when __init__ raises
\* idict[i] keeps the object as the raise left it until i is used again
New(i, raw) ==
  /\ ncalls < MaxCalls
  /\ i \notin objs
  /\ \A j \in Instances : j < i => j \in objs
  /\ \E h \in {Proxy_init(Heap(cls, [idict EXCEPT ![i] = EmptyDict]), i, raw)} :
         /\ cls' = h.cls
         /\ idict' = h.idict
         /\ objs' = IF h.err = "none" THEN objs \cup {i} ELSE objs
         /\ res' = [err |-> h.err, msg |-> h.msg, out |-> PyNone, ret |-> EmptyDict]
  /\ last' = [op |-> "new", inst |-> i, name |-> "", value |-> PyNone, raw |-> raw]
  /\ ncalls' = ncalls + 1

\* p.proxy_type = value
SetProxyType(i, value) ==
  /\ ncalls < MaxCalls
  /\ i \in objs
  /\ \E h \in {ProxyDescriptor_set(Heap(cls, idict), i, value)} :
         /\ cls' = h.cls
         /\ idict' = h.idict
         /\ res' = [err |-> h.err, msg |-> h.msg, out |-> PyNone, ret |-> EmptyDict]
  /\ last' = [op |-> "set", inst |-> i, name |-> "proxy_type", value |-> value, raw |-> NoRaw]
  /\ ncalls' = ncalls + 1
  /\ UNCHANGED objs

\* p.<acc> = value for one of the ten ProxyTypeDescriptor accessors
SetField(i, acc, value) ==
  /\ ncalls < MaxCalls
  /\ i \in objs
  /\ \E h \in {ProxyTypeDescriptor_set(Heap(cls, idict), Descriptors[acc], i, value)} :
         /\ cls' = h.cls
         /\ idict' = h.idict
         /\ res' = [err |-> h.err, msg |-> h.msg, out |-> PyNone, ret |-> EmptyDict]
  /\ last' = [op |-> "set", inst |-> i, name |-> acc, value |-> value, raw |-> NoRaw]
  /\ ncalls' = ncalls + 1
  /\ UNCHANGED objs

\* to_capabilities() that keeps the sslProxy it read on the instance
ToCapabilities_Storing(i) ==
  /\ ncalls < MaxCalls
  /\ i \in objs
  /\ res' = [err |-> "none", msg |-> <<>>, out |-> PyNone,
             ret |-> to_capabilities(cls, idict, i)]
  /\ last' = [op |-> "to_capabilities", inst |-> i, name |-> "", value |-> PyNone,
              raw |-> NoRaw]
  /\ ncalls' = ncalls + 1
  /\ idict' = [idict EXCEPT ![i] = [k \in {"sslProxy"} |-> GetAttr(cls, idict, i, "sslProxy")]]
  /\ UNCHANGED <<cls, objs>>

\* p.to_capabilities()
ToCapabilities(i) ==
  /\ ncalls < MaxCalls
  /\ i \in objs
  /\ res' = [err |-> "none", msg |-> <<>>, out |-> PyNone,
             ret |-> to_capabilities(cls, idict, i)]
  /\ last' = [op |-> "to_capabilities", inst |-> i, name |-> "", value |-> PyNone,
              raw |-> NoRaw]
  /\ ncalls' = ncalls + 1
  /\ UNCHANGED <<cls, idict, objs>>

Next ==
  \/ \E i \in Instances, raw \in RawInputs : New(i, raw)
  \/ \E i \in Instances, value \in ProxyTypes : SetProxyType(i, value)
  \/ \E i \in Instances, acc \in Accessors : \E value \in SetVals(acc) : SetField(i, acc, value)
  \/ \E i \in Instances : ToCapabilities(i)

Spec == Init /\ [][Next]_vars

\* construction from raw mappings of up to two keys
NextCtor ==
  \/ \E i \in Instances, raw \in RawInputs2 : ncalls < MaxCtorCalls /\ New(i, raw)
  \/ \E i \in Instances, value \in ProxyTypes :
       ncalls < MaxCtorCalls /\ SetProxyType(i, value)
  \/ \E i \in Instances, acc \in Accessors : \E value \in SetVals(acc) :
       ncalls < MaxCtorCalls /\ SetField(i, acc, value)
  \/ \E i \in Instances : ncalls < MaxCtorCalls /\ ToCapabilities(i)

SpecCtor == Init /\ [][NextCtor]_vars

\* q = Proxy(p.to_capabilities())
Reload(p, i) ==
  /\ p \in objs
  /\ New(i, Raw(to_capabilities(cls, idict, p)))

\* the calls of Spec and construction from an instance's own serialization
NextReload ==
  \/ \E i \in Instances, raw \in RawInputs : New(i, raw)
  \/ \E i \in Instances, value \in ProxyTypes : SetProxyType(i, value)
  \/ \E i \in Instances, acc \in Accessors : \E value \in SetVals(acc) : SetField(i, acc, value)
  \/ \E i \in Instances : ToCapabilities(i)
  \/ \E p \in Instances, i \in Instances : Reload(p, i)

SpecReload == Init /\ [][NextReload]_vars

\* ------------------------------------------------------------ ProxyType.load
\* every spelling of an identifier in upper and lower case letters
RECURSIVE Casings(_)
Casings(s) ==
  IF s = <<>> THEN {<<>>}
  ELSE {<<c>> \o t : c \in {LowerChar(Head(s)), UpperChar(Head(s))}, t \in Casings(Tail(s))}

LoadInputs ==
  UNION {{PyStr(s) : s \in Casings(T.s)} : T \in ProxyTypes}
  \cup ProxyTypes
  \cup {make(T.n, Lower(T.s)) : T \in ProxyTypes}
  \cup {make(7, <<"b","o","g","u","s">>), make(1, <<>>)}
  \cup {PyStr(SubSeq(T.s, 1, Len(T.s) - 1)) : T \in ProxyTypes}
  \cup {PyStr(T.s \o <<" ">>) : T \in ProxyTypes}
  \cup {PyStr(<<>>), PyStr(<<"R","E","S","E","R","V","E","D","_","1">>),
        PyStr(<<"b","o","g","u","s">>), PyStr(<<"n","o","n","e">>),
        PyInt(0), PyInt(2), PyInt(6), PyInt(12), PyBool(TRUE), PyBool(FALSE), PyNone}

InitLoad ==
  /\ cls = ClassDefaults
  /\ idict = [i \in Instances |-> EmptyDict]
  /\ objs = {}
  /\ \E v \in LoadInputs :
       last = [op |-> "load_call", inst |-> 0, name |-> "", value |-> v, raw |-> NoRaw]
  /\ res = NoRes
  /\ ncalls = 0

\* ProxyType.load(value) returns or raises
Load ==
  /\ last.op = "load_call"
  /\ \E r \in {load(last.value)} :
       res' = [err |-> r.err, msg |-> r.msg, out |-> r.out, ret |-> EmptyDict]
  /\ last' = [last EXCEPT !.op = "load"]
  /\ ncalls' = ncalls + 1
  /\ UNCHANGED <<cls, idict, objs>>

NextLoad == Load

SpecLoad == InitLoad /\ [][NextLoad]_vars

\* ------------------------------------------------------------------ claims
\* what the accessors and to_capabilities() of instance i read in heap (c, d)
View(c, d, i) ==
  [proxy_type |-> ProxyDescriptor_get(c, i),
   fields |-> [acc \in Accessors |-> ProxyTypeDescriptor_get(c, Descriptors[acc], i)],
   caps |-> to_capabilities(c, d, i)]

\* the step is a call of a setter (proxy_type or one of the ten accessors)
SetterStep == last'.op = "set" /\ ncalls' = ncalls + 1

\* the type the setter named acc implies
ImpliedType(acc) == Descriptors[acc].p_type

\* once concrete, the type every instance reads never changes
C1_Stable ==
  \A i \in objs :
    ProxyDescriptor_get(cls, i) # UNSPECIFIED
      => i \in objs' /\ ProxyDescriptor_get(cls', i) = ProxyDescriptor_get(cls, i)

\* a type write on an instance of concrete type T succeeds only for T
C1_TypeWrites ==
  (SetterStep /\ last'.name = "proxy_type"
     /\ ProxyDescriptor_get(cls, last'.inst) # UNSPECIFIED)
    => /\ last'.value # ProxyDescriptor_get(cls, last'.inst)
            => res'.err = "IncompatibleState"
       /\ res'.err = "none" => last'.value = ProxyDescriptor_get(cls, last'.inst)

\* the step is a field setter whose implied type is not the concrete current type
C1_MismatchedFieldWrite ==
  /\ SetterStep
  /\ last'.name \in Accessors
  /\ ProxyDescriptor_get(cls, last'.inst) # UNSPECIFIED
  /\ ImpliedType(last'.name) # ProxyDescriptor_get(cls, last'.inst)

\* C1 as stated: single-typed lifetime; once an instance's proxyType reads as a
\* concrete type T it reads as T ever after, every proxy_type write of another
\* value and every field setter implying another type fails with
\* IncompatibleState, and the only successful type write re-asserts T.
C1_Original ==
  [][/\ C1_Stable
     /\ C1_TypeWrites
     /\ C1_MismatchedFieldWrite => res'.err = "IncompatibleState"]_vars

\* C1 amended: as C1, except that the autodetect setter given a non-boolean
\* fails with TypeMismatch (its type test runs first); every other mismatched
\* field write fails with IncompatibleState.
C1_SingleTyped ==
  [][/\ C1_Stable
     /\ C1_TypeWrites
     /\ C1_MismatchedFieldWrite =>
          res'.err = IF last'.name = "auto_detect" /\ ~IsBool(last'.value)
                       THEN "TypeMismatch" ELSE "IncompatibleState"]_vars

\* a MANUAL instance refused the write proxy_type = UNSPECIFIED
C1_Witness ==
  /\ last.op = "set" /\ last.name = "proxy_type" /\ last.value = UNSPECIFIED
  /\ res.err = "IncompatibleState"
  /\ last.inst \in objs
  /\ ProxyDescriptor_get(cls, last.inst) = MANUAL

\* C2: a setter call that raises leaves proxyType and the ten fields of every
\* instance, as read through the accessors and as serialized by
\* to_capabilities(), exactly as they were before the call.
C2_FailedSetterNoChange ==
  [][(SetterStep /\ res'.err # "none")
       => /\ objs' = objs
          /\ \/ cls' = cls /\ idict' = idict
             \/ \A i \in objs : View(cls', idict', i) = View(cls, idict, i)]_vars

\* setting proxyAutoconfigUrl after httpProxy = "a" failed with IncompatibleState
C2_Witness ==
  /\ last.op = "set" /\ last.name = "proxy_autoconfig_url" /\ Truthy(last.value)
  /\ res.err = "IncompatibleState"
  /\ last.inst \in objs
  /\ View(cls, idict, last.inst).fields["http_proxy"] = StrA
  /\ View(cls, idict, last.inst).proxy_type = MANUAL

\* the ten field names
Fields == {proxies[k] : k \in 1..Len(proxies)}

\* the lowercased identifiers of the seven variants, written out
CapsName(T) ==
  CASE T = DIRECT -> <<"d","i","r","e","c","t">>
    [] T = MANUAL -> <<"m","a","n","u","a","l">>
    [] T = PAC -> <<"p","a","c">>
    [] T = RESERVED_1 -> <<"r","e","s","e","r","v","e","d","1">>
    [] T = AUTODETECT -> <<"a","u","t","o","d","e","t","e","c","t">>
    [] T = SYSTEM -> <<"s","y","s","t","e","m">>
    [] T = UNSPECIFIED -> <<"u","n","s","p","e","c","i","f","i","e","d">>

DefaultCaps == [x \in {"proxyType"} |-> PyStr(CapsName(UNSPECIFIED))]

\* C3 as stated: an instance constructed with no argument or an empty mapping,
\* at whatever point of a run, serializes to exactly {"proxyType":
\* "unspecified"} and reads every field at its default.
C3_FreshIsDefault ==
  (last.op = "new" /\ res.err = "none" /\ DOMAIN last.raw.map = {})
    => /\ to_capabilities(cls, idict, last.inst) = DefaultCaps
       /\ View(cls, idict, last.inst).proxy_type = UNSPECIFIED
       /\ \A acc \in Accessors :
            View(cls, idict, last.inst).fields[acc] = ClassDefaults[Descriptors[acc].name]

\* the step is a call of one of the nine setters implying MANUAL or PAC, made
\* while the instance's type is UNSPECIFIED or the implied type
C4_CompatibleWrite ==
  /\ SetterStep
  /\ last'.name \in Accessors \ {"auto_detect"}
  /\ ProxyDescriptor_get(cls, last'.inst) \in {UNSPECIFIED, ImpliedType(last'.name)}

\* C4 as stated: such a write succeeds, sets proxyType to the implied type
\* whatever the value, and the instance's next to_capabilities() reports the
\* lowercased implied type and, for a truthy value, the field with that value.
C4_SetterPostcondition ==
  [][C4_CompatibleWrite
       => /\ res'.err = "none"
          /\ ProxyDescriptor_get(cls', last'.inst) = ImpliedType(last'.name)
          /\ LET caps == to_capabilities(cls', idict', last'.inst)
                 field == Descriptors[last'.name].name
             IN  /\ caps["proxyType"] = PyStr(CapsName(ImpliedType(last'.name)))
                 /\ Truthy(last'.value)
                      => field \in DOMAIN caps /\ caps[field] = last'.value]_vars

\* C5: the autodetect setter tests the value's type before the compatibility
\* rule: a non-boolean fails with TypeMismatch in every state and changes
\* nothing; a boolean succeeds when proxyType is UNSPECIFIED or AUTODETECT,
\* sets proxyType to AUTODETECT and stores the value; a boolean fails with
\* IncompatibleState when proxyType is any other concrete type.
C5_AutodetectSetter ==
  [][(SetterStep /\ last'.name = "auto_detect")
       => IF ~IsBool(last'.value)
            THEN res'.err = "TypeMismatch" /\ cls' = cls /\ idict' = idict
          ELSE IF ProxyDescriptor_get(cls, last'.inst) \in {UNSPECIFIED, AUTODETECT}
            THEN /\ res'.err = "none"
                 /\ ProxyDescriptor_get(cls', last'.inst) = AUTODETECT
                 /\ ProxyTypeDescriptor_get(cls', Descriptors["auto_detect"], last'.inst)
                      = last'.value
          ELSE res'.err = "IncompatibleState" /\ cls' = cls /\ idict' = idict]_vars

\* a non-boolean assigned to autodetect on a MANUAL instance: TypeMismatch
C5_Witness ==
  /\ last.op = "set" /\ last.name = "auto_detect" /\ ~IsBool(last.value)
  /\ res.err = "TypeMismatch"
  /\ last.inst \in objs
  /\ ProxyDescriptor_get(cls, last.inst) = MANUAL

\* C7 as stated: a constructor-with-raw call or a setter call on instance p
\* leaves every other instance's proxyType, fields and to_capabilities()
\* unchanged, and with them which setter calls on it succeed.
C7_NoSharedState ==
  [][(ncalls' = ncalls + 1 /\ last'.op \in {"new", "set"})
       => \A q \in objs \ {last'.inst} :
            q \in objs' /\ View(cls', idict', q) = View(cls, idict, q)]_vars

\* C8: to_capabilities() holds proxyType with the lowercased identifier of the
\* current type, holds each of the ten fields under its camel-case key exactly
\* when the field's value is truthy, with that value unconverted, and holds no
\* other key.
C8_CapabilitiesContent ==
  /\ \A i \in objs :
       LET caps == to_capabilities(cls, idict, i)
       IN  /\ caps["proxyType"] = PyStr(CapsName(GetAttr(cls, idict, i, "proxyType")))
           /\ DOMAIN caps =
                {"proxyType"} \cup {f \in Fields : Truthy(GetAttr(cls, idict, i, f))}
           /\ \A f \in DOMAIN caps \ {"proxyType"} : caps[f] = GetAttr(cls, idict, i, f)
  /\ last.op = "to_capabilities" => res.ret = to_capabilities(cls, idict, last.inst)

\* to_capabilities() returned socksVersion 5 as an integer and left out the
\* fields that are set but falsy
C8_Witness ==
  /\ last.op = "to_capabilities"
  /\ DOMAIN res.ret = {"proxyType", "socksVersion", "httpProxy"}
  /\ res.ret["socksVersion"] = PyInt(5)
  /\ res.ret["proxyType"] = PyStr(CapsName(MANUAL))

\* the error every setter call on instance i would end with in heap (c, d)
SetterOutcomes(c, d, i) ==
  [acc \in Accessors |->
     [v \in SetVals(acc) |-> ProxyTypeDescriptor_set(Heap(c, d), Descriptors[acc], i, v).err]]

\* C10: to_capabilities() is a pure read: it changes neither proxyType nor any
\* field of any instance nor the outcome of any later setter call, and two
\* calls on an instance with no call in between return equal mappings.
C10_PureRead ==
  [][(ncalls' = ncalls + 1 /\ last'.op = "to_capabilities")
       => /\ cls' = cls /\ idict' = idict /\ objs' = objs
          /\ \A i \in objs :
               /\ View(cls', idict', i) = View(cls, idict, i)
               /\ SetterOutcomes(cls', idict', i) = SetterOutcomes(cls, idict, i)
               /\ ProxyDescriptor_set(Heap(cls', idict'), i, MANUAL).err
                    = ProxyDescriptor_set(Heap(cls, idict), i, MANUAL).err
          /\ (last.op = "to_capabilities" /\ last.inst = last'.inst)
               => res'.ret = res.ret]_vars

\* to_capabilities() was called, after two earlier calls, on an instance whose
\* sslProxy it read from the class attribute
C10_Witness ==
  /\ last.op = "to_capabilities"
  /\ ncalls >= 3
  /\ "sslProxy" \in DOMAIN res.ret
  /\ "sslProxy" \notin DOMAIN idict[last.inst]

\* s is the identifier id in some letter case
IsCasingOf(s, id) ==
  /\ Len(s) = Len(id)
  /\ \A k \in 1..Len(id) : s[k] \in {LowerChar(id[k]), UpperChar(id[k])}

\* value names the variant T: its identifier as a string or in a wrapped record
Spells(value, T) == value.ty \in {"str", "ptype"} /\ IsCasingOf(value.s, T.s)

\* the type the setter of field f implies
FieldType(f) == (CHOOSE desc \in {Descriptors[acc] : acc \in Accessors} : desc.name = f).p_type

\* raw names a proxyType T and otherwise holds only truthy fields implying T
C6_Covered(raw, T) ==
  /\ raw.given
  /\ "proxyType" \in DOMAIN raw.map
  /\ Spells(raw.map["proxyType"], T)
  /\ \A k \in DOMAIN raw.map \ {"proxyType"} :
       k \in Fields /\ Truthy(raw.map[k]) /\ FieldType(k) = T

\* the mapping raw with proxyType replaced by the lowercased identifier of T
C6_Expected(raw, T) ==
  [k \in DOMAIN raw.map |-> IF k = "proxyType" THEN PyStr(CapsName(T)) ELSE raw.map[k]]

\* the step is a constructor call made while every setting is at its default
C6_FirstConstruction == ncalls' = ncalls + 1 /\ last'.op = "new" /\ cls = ClassDefaults

\* C6 as stated: with no setting written before, constructing from a raw
\* mapping that names a proxyType T in any letter case and gives truthy values
\* only for fields implying T succeeds, and to_capabilities() returns the
\* mapping's fields unchanged plus proxyType as the lowercased identifier of T.
C6_Original ==
  [][C6_FirstConstruction
       => \A T \in ProxyTypes :
            C6_Covered(last'.raw, T)
              => /\ res'.err = "none"
                 /\ last'.inst \in objs'
                 /\ to_capabilities(cls', idict', last'.inst) = C6_Expected(last'.raw, T)]_vars

\* C6 amended: as C6, for mappings whose autodetect value, when given, is a
\* boolean (a truthy non-boolean autodetect makes the constructor raise
\* TypeMismatch).
C6_RoundTrip ==
  [][C6_FirstConstruction
       => \A T \in ProxyTypes :
            (/\ C6_Covered(last'.raw, T)
             /\ "autodetect" \in DOMAIN last'.raw.map => IsBool(last'.raw.map["autodetect"]))
              => /\ res'.err = "none"
                 /\ last'.inst \in objs'
                 /\ to_capabilities(cls', idict', last'.inst) = C6_Expected(last'.raw, T)]_vars

\* Proxy({"proxyType": "pac", "proxyAutoconfigUrl": "a"}) as the first call
C6_Witness ==
  /\ ncalls = 1 /\ last.op = "new" /\ res.err = "none"
  /\ DOMAIN last.raw.map = {"proxyType", "proxyAutoconfigUrl"}
  /\ last.raw.map["proxyType"] = PyStr(<<"p","a","c">>)
  /\ to_capabilities(cls, idict, last.inst)
       = [proxyType |-> PyStr(<<"p","a","c">>), proxyAutoconfigUrl |-> StrA]

\* C9: lookup of a variant's identifier in any letter case, bare or in a
\* wrapped record, returns that variant; no two variants share an identifier;
\* lookup of a value whose upper-cased string form is none of the seven
\* identifiers fails with the LookupError naming it, never with a default.
C9_Lookup ==
  /\ \A T1, T2 \in ProxyTypes : T1.s = T2.s => T1 = T2
  /\ last.op = "load"
       => /\ \A T \in ProxyTypes :
               Spells(last.value, T) => res.err = "none" /\ res.out = T
          /\ (~\E T \in ProxyTypes : Spells(last.value, T))
               => /\ res.err = "LookupError"
                  /\ res.out = PyNone
                  /\ IsCasingOf(IF last.value.ty = "ptype" THEN last.value.s
                                ELSE StrOf(last.value), res.msg)

\* lookup of "rEsErVeD1" returned RESERVED_1
C9_Witness ==
  /\ last.op = "load"
  /\ last.value = PyStr(<<"r","E","s","E","r","V","e","D","1">>)
  /\ res.err = "none" /\ res.out = RESERVED_1

\* ------------------------------------------------- construction, key by key
\* the step is a constructor call
NewStep == ncalls' = ncalls + 1 /\ last'.op = "new"

\* the positions of InitOrder whose key the mapping m holds with a truthy value
Applied(m) == {k \in 1..Len(InitOrder) : InitOrder[k] \in DOMAIN m /\ Truthy(m[InitOrder[k]])}

\* the type the write of key requests: the variant a proxyType value names,
\* the implied type of a field
KeyType(m, key) ==
  IF key = "proxyType"
    THEN IF \E T \in ProxyTypes : Spells(m[key], T)
           THEN CHOOSE T \in ProxyTypes : Spells(m[key], T)
           ELSE PyNone
    ELSE FieldType(key)

MaxOf(S) == CHOOSE x \in S : \A y \in S : y <= x

MinOf(S) == CHOOSE x \in S : \A y \in S : x <= y

\* the type in force when position k is reached, every earlier write having
\* succeeded: that of the nearest earlier key other than sslProxy among the
\* applied positions ap
TypeBefore(c, m, ap, k) ==
  LET prev == {j \in ap : j < k /\ InitOrder[j] # "sslProxy"}
  IN  IF prev = {} THEN c.proxyType ELSE KeyType(m, InitOrder[MaxOf(prev)])

\* the error the write at position k ends with, "none" when it succeeds
WriteError(c, m, ap, k) ==
  LET key == InitOrder[k]
  IN  IF key = "sslProxy" THEN "none"
      ELSE IF key = "proxyType" /\ KeyType(m, key) = PyNone THEN "LookupError"
      ELSE IF key = "autodetect" /\ ~IsBool(m[key]) THEN "TypeMismatch"
      ELSE IF TypeBefore(c, m, ap, k) \notin {UNSPECIFIED, KeyType(m, key)}
        THEN "IncompatibleState"
      ELSE "none"

\* the first position whose write fails, 0 when none does
FirstFail(c, m, ap) ==
  LET bad == {k \in ap : WriteError(c, m, ap, k) # "none"}
  IN  IF bad = {} THEN 0 ELSE MinOf(bad)

\* C11, the rule: the constructor applies the truthy recognized keys in the
\* order of InitOrder and stops at the first whose write fails; that error
\* propagates, every earlier key keeps its written value and the type it
\* implied, and no later key is applied.
C11_InOrder ==
  NewStep =>
    \A m \in {last'.raw.map} : \A ap \in {Applied(m)} :
    \A f \in {FirstFail(cls, m, ap)} :
    \A w \in {{k \in ap : f = 0 \/ k < f}} :
    \A wt \in {{k \in w : InitOrder[k] # "sslProxy"}} :
        /\ res'.err = IF f = 0 THEN "none" ELSE WriteError(cls, m, ap, f)
        /\ cls'.proxyType =
             IF wt = {} THEN cls.proxyType ELSE KeyType(m, InitOrder[MaxOf(wt)])
        /\ \A k \in 2..Len(InitOrder) :
             LET key == InitOrder[k]
             IN  IF key = "sslProxy"
                   THEN IF k \in w
                          THEN /\ "sslProxy" \in DOMAIN idict'[last'.inst]
                               /\ idict'[last'.inst]["sslProxy"] = m[key]
                          ELSE "sslProxy" \notin DOMAIN idict'[last'.inst]
                   ELSE cls'[key] = IF k \in w THEN m[key] ELSE cls[key]
        /\ cls'.sslProxy = cls.sslProxy

\* C11, the example: Proxy({"httpProxy": h, "proxyAutoconfigUrl": u}) raises
\* IncompatibleState with httpProxy = h and proxyType MANUAL stored.
C11_Example ==
  (/\ NewStep
   /\ DOMAIN last'.raw.map = {"httpProxy", "proxyAutoconfigUrl"}
   /\ Truthy(last'.raw.map["httpProxy"])
   /\ Truthy(last'.raw.map["proxyAutoconfigUrl"]))
    => /\ res'.err = "IncompatibleState"
       /\ ProxyTypeDescriptor_get(cls', Descriptors["http_proxy"], last'.inst)
            = last'.raw.map["httpProxy"]
       /\ ProxyDescriptor_get(cls', last'.inst) = MANUAL

\* the rule of C11 alone, in every constructor step
C11_InOrderHolds == [][C11_InOrder]_vars

\* C11 as stated: construction from a raw mapping applies the recognized truthy
\* keys in the fixed order and stops at the first key whose write fails, the
\* earlier keys keeping their values and implied type (for {"httpProxy": h,
\* "proxyAutoconfigUrl": u} it raises IncompatibleState with httpProxy = h and
\* proxyType MANUAL stored).
C11_OrderedConstruction == [][C11_InOrder /\ C11_Example]_vars

\* the mapping m without key
Without(m, key) == [x \in DOMAIN m \ {key} |-> m[x]]

\* C12, the bypass: a truthy sslProxy in the raw mapping is stored on the object
\* without a check and without a type change, so the constructor ends, in
\* error and in class attributes, as it does for the mapping without sslProxy.
C12_Bypass ==
  (NewStep /\ "sslProxy" \in DOMAIN last'.raw.map /\ Truthy(last'.raw.map["sslProxy"]))
    => \A h \in {Proxy_init(Heap(cls, [idict EXCEPT ![last'.inst] = EmptyDict]),
                            last'.inst, Raw(Without(last'.raw.map, "sslProxy")))} :
         /\ res'.err = h.err
         /\ cls' = h.cls
         /\ res'.err = "none"
              => /\ last'.inst \in objs'
                 /\ idict'[last'.inst] = [x \in {"sslProxy"} |-> last'.raw.map["sslProxy"]]

\* C12, the setter: ssl_proxy assigned after construction runs the check and
\* sets proxyType to MANUAL.
C12_Setter ==
  (SetterStep /\ last'.name = "ssl_proxy")
    => IF ProxyDescriptor_get(cls, last'.inst) \in {UNSPECIFIED, MANUAL}
         THEN res'.err = "none" /\ ProxyDescriptor_get(cls', last'.inst) = MANUAL
         ELSE res'.err = "IncompatibleState"

\* C12, the example: Proxy({"sslProxy": s}) leaves proxyType UNSPECIFIED and
\* serializes to {"proxyType": "unspecified", "sslProxy": s}.
C12_Example ==
  (NewStep /\ DOMAIN last'.raw.map = {"sslProxy"} /\ Truthy(last'.raw.map["sslProxy"]))
    => /\ res'.err = "none"
       /\ ProxyDescriptor_get(cls', last'.inst) = UNSPECIFIED
       /\ to_capabilities(cls', idict', last'.inst)
            = [proxyType |-> PyStr(CapsName(UNSPECIFIED)),
               sslProxy |-> last'.raw.map["sslProxy"]]

\* the bypass and the setter behaviour of C12 alone
C12_BypassHolds == [][C12_Bypass /\ C12_Setter]_vars

\* C12 as stated: construction stores a truthy sslProxy without the
\* compatibility check and without changing proxyType, so it never fails
\* because of sslProxy; Proxy({"sslProxy": s}) leaves proxyType UNSPECIFIED with
\* to_capabilities() = {"proxyType": "unspecified", "sslProxy": s}; the setter
\* after construction runs the check and sets MANUAL.
C12_SslBypass == [][C12_Bypass /\ C12_Setter /\ C12_Example]_vars

\* the keys Proxy.__init__ recognizes
Recognized == {InitOrder[k] : k \in 1..Len(InitOrder)}

\* C13, the rule: a recognized key with a falsy value, and an unrecognized key,
\* is skipped: the constructor ends, in error, class attributes and the
\* object's own attributes, as it does for the mapping without that key.
C13_Skipped ==
  NewStep =>
    \A key \in DOMAIN last'.raw.map :
      (key \notin Recognized \/ ~Truthy(last'.raw.map[key]))
        => \A h \in {Proxy_init(Heap(cls, [idict EXCEPT ![last'.inst] = EmptyDict]),
                                last'.inst, Raw(Without(last'.raw.map, key)))} :
             res'.err = h.err /\ cls' = h.cls /\ idict' = h.idict

\* C13, the rule for a mapping of skipped keys only: nothing raises or changes
C13_AllSkipped ==
  (NewStep /\ \A key \in DOMAIN last'.raw.map :
                key \notin Recognized \/ ~Truthy(last'.raw.map[key]))
    => res'.err = "none" /\ cls' = cls /\ idict'[last'.inst] = EmptyDict

\* C13, the example: Proxy({"autodetect": false}) leaves proxyType UNSPECIFIED
\* and raises nothing, whereas auto_detect = false through the setter sets
\* proxyType to AUTODETECT.
C13_Example ==
  /\ (NewStep /\ DOMAIN last'.raw.map = {"autodetect"}
        /\ last'.raw.map["autodetect"] = PyBool(FALSE))
       => res'.err = "none" /\ ProxyDescriptor_get(cls', last'.inst) = UNSPECIFIED
  /\ (SetterStep /\ last'.name = "auto_detect" /\ last'.value = PyBool(FALSE))
       => res'.err = "none" /\ ProxyDescriptor_get(cls', last'.inst) = AUTODETECT

\* the rule of C13 alone
C13_SkippedHolds == [][C13_Skipped /\ C13_AllSkipped]_vars

\* C13 as stated: the constructor skips every recognized key whose value is
\* falsy and every unrecognized key, which therefore never raises and never
\* changes proxyType or a field (Proxy({"autodetect": false}) leaves proxyType
\* UNSPECIFIED and raises nothing, whereas the setter given false sets
\* proxyType to AUTODETECT).
C13_TruthyOnly == [][C13_Skipped /\ C13_AllSkipped /\ C13_Example]_vars

\* every field in caps other than those in skip implies the type caps names
AgreesWithType(caps, skip) ==
  \A f \in (DOMAIN caps \ {"proxyType"}) \ skip :
    caps["proxyType"] = PyStr(CapsName(FieldType(f)))

\* C14 as stated: every instance's to_capabilities() holds a MANUAL-implying
\* field only if its proxyType is "manual", proxyAutoconfigUrl only if "pac"
\* and autodetect only if "autodetect", hence never fields of two types.
C14_Original ==
  \A i \in objs : AgreesWithType(to_capabilities(cls, idict, i), {})

\* C14 amended: as C14, except for sslProxy on an instance constructed from a
\* raw mapping with a truthy sslProxy: the constructor stores it without
\* setting the type, so it may accompany any proxyType and any other field.
C14_FieldsAgreeWithType ==
  \A i \in objs :
    AgreesWithType(to_capabilities(cls, idict, i),
                   IF "sslProxy" \in DOMAIN idict[i] THEN {"sslProxy"} ELSE {})

\* an instance constructed with sslProxy serializes it next to a PAC url
C14_Witness ==
  \E i \in objs :
    /\ "sslProxy" \in DOMAIN idict[i]
    /\ DOMAIN to_capabilities(cls, idict, i) = {"proxyType", "proxyAutoconfigUrl", "sslProxy"}
    /\ to_capabilities(cls, idict, i)["proxyType"] = PyStr(CapsName(PAC))

\* C15 as stated: for every instance and each of the ten fields the getter
\* returns the value to_capabilities() tests and serializes, and the
\* proxy_type getter returns the type whose identifier it reports, also for
\* sslProxy on an instance constructed from a raw mapping holding sslProxy.
C15_AccessorAgrees ==
  \A i \in objs :
    LET caps == to_capabilities(cls, idict, i)
    IN  /\ caps["proxyType"] = PyStr(CapsName(ProxyDescriptor_get(cls, i)))
        /\ \A acc \in Accessors :
             LET v == ProxyTypeDescriptor_get(cls, Descriptors[acc], i)
                 f == Descriptors[acc].name
             IN  /\ f \in DOMAIN caps <=> Truthy(v)
                 /\ f \in DOMAIN caps => caps[f] = v

\* C16: for every instance p in every reachable state, constructing a new
\* instance from the mapping p.to_capabilities() raises no error, and the new
\* instance's to_capabilities() equals p.to_capabilities(), as it was before
\* the construction and as it is after it.
C16_Reloadable ==
  [][NewStep =>
       \A p \in objs :
         (last'.raw.given /\ last'.raw.map = to_capabilities(cls, idict, p))
           => /\ res'.err = "none"
              /\ last'.inst \in objs'
              /\ to_capabilities(cls', idict', last'.inst) = last'.raw.map
              /\ to_capabilities(cls', idict', p) = last'.raw.map]_vars

\* a second instance was constructed from the serialization of a MANUAL
\* instance that holds httpProxy and a constructor-written sslProxy
C16_Witness ==
  /\ last.op = "new" /\ res.err = "none"
  /\ DOMAIN last.raw.map = {"proxyType", "httpProxy", "sslProxy"}
  /\ last.raw.map["proxyType"] = PyStr(CapsName(MANUAL))
  /\ last.inst \in objs
  /\ to_capabilities(cls, idict, last.inst) = last.raw.map
  /\ \E p \in objs \ {last.inst} :
       /\ "sslProxy" \in DOMAIN idict[p]
       /\ to_capabilities(cls, idict, p) = last.raw.map

====
